---- MODULE Spec2Model ----
(***************************************************************************)
(* Model of src/main.ts of setup-tool-action: run() -> mkReleaseConfig,    *)
(* findOrDownload, download.                                               *)
(*                                                                         *)
(* Two installer processes run run() on one machine against the same       *)
(* action inputs.  They share the tool cache and the file system; every    *)
(* awaited or synchronous library call of the source is one step, so the   *)
(* processes interleave between calls.                                     *)
(*                                                                         *)
(* Library calls (@actions/tool-cache, fs, ./github, ./inputs) are         *)
(* modelled by their contract: each may throw, and succeeds, with the      *)
(* effect the contract describes, only on arguments the library accepts:   *)
(* tc.downloadTool refuses a destination that exists, tc.cacheDir a source *)
(* that is not a directory, fs.cpSync without recursive a directory.       *)
(* A path is a sequence of components and path.join is concatenation.      *)
(***************************************************************************)
EXTENDS Integers, Sequences, FiniteSets, TLC

VARIABLES
  inputs,     \* the action inputs and process environment read by getInputs / process.env
  cache,      \* the tool cache: version -> state of the slot <cache>/<name>/<version>/<arch>
  fsys,       \* the file system outside the cache: existing path -> what it holds
  pc,         \* per process: the call of run() it is about to make
  config,     \* per process: the ReleaseConfig built by mkReleaseConfig
  loc,        \* per process: the local variables of download()
  existingDir,\* per process: what tc.find returned to findOrDownload
  dir,        \* per process: the value findOrDownload returned to run()
  searchPath, \* per process: the directories handed to core.addPath, in order
  failure,    \* per process: the step whose error reached core.setFailed, or NoError
  calls,      \* per process: the library calls made so far, with argument and outcome
  cache0,     \* the tool cache as it was before any process ran (history)
  before      \* per process: the processes that had finished when it started (history)

vars == <<inputs, cache, fsys, pc, config, loc, existingDir, dir, searchPath, failure,
          calls, cache0, before>>

(***************************************************************************)
(* Values                                                                  *)
(***************************************************************************)
Procs == {"p1", "p2"}

Null == "null"            \* JavaScript null
Undefined == "undefined"  \* JavaScript undefined
NoPath == <<>>            \* a path that is '' or null, or a variable not assigned yet
NotLookedUp == <<"?">>    \* existingDir before tc.find has returned
NoError == "none"

ToolName == "foo"
OsArch == "x64"
Versions == {"1.2.0", "2.0.0"}
RunVersion == "1.2.0"

\* type PkgExtension (main.ts:10) and one extension outside it
PkgExtensions == {"tar.gz", "zip", "7z", "xar"}
Extensions == PkgExtensions \cup {"exe"}

\* subdir templates: none, a literal directory, a directory named by variables
SubdirTemplates == {<<>>, <<"pkg", "bin">>, <<"{name}", "{version}">>}

HomeDir == <<"home">>
RunnerTemp == <<"runner-temp">>
CacheRoot == <<"tool-cache">>

\* what a cache slot or a path holds
Absent == "absent"

\* JavaScript truthiness: of a string-valued expression, and of a path-valued one
\* (an unassigned, null or empty path is the empty sequence)
Truthy(v) == v \notin {Null, Undefined, ""}
TruthyPath(path) == path # NoPath

join(a, b) == a \o b

IsPrefix(a, b) == Len(a) <= Len(b) /\ SubSeq(b, 1, Len(a)) = a

\* a removal that is not recursive: only the path itself goes
RemoveShallow(fs, path) == [q \in DOMAIN fs \ {path} |-> fs[q]]

\* fs.rmSync(path, {recursive: true, force: true}): the path and all below it go
Remove(fs, path) == [q \in {r \in DOMAIN fs : ~IsPrefix(path, r)} |-> fs[q]]

\* a file or directory appears at path (or is overwritten)
Put(fs, path, what) == [q \in DOMAIN fs \cup {path} |-> IF q = path THEN what ELSE fs[q]]

Exists(fs, path) == path \in DOMAIN fs

ContentOf(fs, path) == IF path \in DOMAIN fs THEN fs[path] ELSE Absent

\* what a path that is a regular file holds; anything else that exists is a directory
FileContents == {"binary", "archive"}
IsFile(fs, path) == Exists(fs, path) /\ fs[path] \in FileContents
IsDirectory(fs, path) == Exists(fs, path) /\ fs[path] \notin FileContents

(***************************************************************************)
(* The environment: inputs, the archive behind the url, well-known paths   *)
(***************************************************************************)
ArchiveUrl == <<"https:", "{name}", "{version}">>
AssetUrl == <<"https:", "asset">>

\* the directories of the archive behind the url and what each holds
ArchiveTree ==
  [d \in {<<>>, <<"pkg">>, <<"pkg", "bin">>, <<"foo">>, <<"foo", "1.2.0">>} |->
     IF d = <<>> THEN "archive:/"
     ELSE IF d = <<"pkg">> THEN "archive:/pkg"
     ELSE IF d = <<"pkg", "bin">> THEN "archive:/pkg/bin"
     ELSE IF d = <<"foo">> THEN "archive:/foo"
     ELSE "archive:/foo/1.2.0"]

InputSpace ==
  [name : {ToolName}, version : {RunVersion}, url : {ArchiveUrl},
   subdir : SubdirTemplates, os : {"linux"}, arch : {OsArch},
   ext : Extensions, noExtract : BOOLEAN, githubToken : {Null, "token"},
   containerId : {Undefined, "c1"}]

\* Math.random().toString(36).slice(2) and the uuid of tc.downloadTool: names that
\* do not repeat; each process draws its own
TmpDirOf(p) == join(HomeDir, <<"tmp", "dest-" \o p>>)
ArchiveDestOf(p) == join(HomeDir, <<"tmp", "extract-" \o p>>)
TempFileOf(p) == join(RunnerTemp, <<"uuid-" \o p>>)

Parent(path) == SubSeq(path, 1, Len(path) - 1)

\* the slot of the tool cache for an identity
CachePath(name, version, arch) == join(CacheRoot, <<name, version, arch>>)

EmptySlot == [state |-> Absent, content |-> Absent]

(***************************************************************************)
(* Pure functions of main.ts                                               *)
(***************************************************************************)
\* a switch that lost its last case
GetExtractWithoutXar(ext) ==
  CASE ext = "tar.gz" -> "extractTar"
    [] ext = "zip" -> "extractZip"
    [] ext = "7z" -> "extract7z"
    [] OTHER -> Undefined

\* main.ts:14-25; an extension outside PkgExtension falls out of the switch
getExtract(ext) ==
  CASE ext = "tar.gz" -> "extractTar"
    [] ext = "zip" -> "extractZip"
    [] ext = "7z" -> "extract7z"
    [] ext = "xar" -> "extractXar"
    [] OTHER -> Undefined

\* ./interpolate: every {variable} of the template is replaced by its value
Interpolate(template, templateVars) ==
  [i \in 1..Len(template) |->
     CASE template[i] = "{name}" -> templateVars.name
       [] template[i] = "{version}" -> templateVars.version
       [] template[i] = "{os}" -> templateVars.os
       [] template[i] = "{arch}" -> templateVars.arch
       [] template[i] = "{ext}" -> templateVars.ext
       [] OTHER -> template[i]]

\* ./inputs getInputs: the resolved inputs
getInputs(in) ==
  [name |-> in.name, version |-> in.version, url |-> in.url, subdir |-> in.subdir,
   os |-> in.os, arch |-> in.arch, ext |-> in.ext, noExtract |-> in.noExtract,
   githubToken |-> in.githubToken]

\* main.ts:60-62
SubdirOf(subdirTemplate, templateVars) ==
  IF TruthyPath(subdirTemplate) THEN Interpolate(subdirTemplate, templateVars) ELSE NoPath

\* main.ts:73
ExtractOf(noExtract, ext) == IF noExtract THEN Null ELSE getExtract(ext)

\* main.ts:45-77
mkReleaseConfig(in, osArch) ==
  LET i == getInputs(in)
      templateVars == [name |-> i.name, version |-> i.version, os |-> i.os,
                       arch |-> i.arch, ext |-> i.ext]
  IN [tool |-> [name |-> i.name, version |-> i.version, arch |-> osArch],
      archive |-> [url |-> Interpolate(i.url, templateVars),
                   subdir |-> SubdirOf(i.subdir, templateVars),
                   extract |-> ExtractOf(i.noExtract, i.ext)],
      githubToken |-> i.githubToken]

\* main.ts:82
InContainerOf(containerId) == containerId # Undefined

\* the private-asset lookup runs whether or not a token is given
AlwaysAssetLookup(githubToken) == TRUE

\* main.ts:88: the private-asset lookup runs when a token is given
UsesAssetLookup(githubToken) == Truthy(githubToken)

\* main.ts:101
FixedDest == join(HomeDir, <<".local", "bin">>)

\* main.ts:100-112: dest for the placement mode
DestOf(inContainer, tmpDir, name) == IF inContainer THEN FixedDest ELSE join(tmpDir, <<name>>)

\* main.ts:115: the raw-binary branch is taken when there is no extract operation
RawBranch(extract) == ~Truthy(extract)

\* the raw binary is never handed to the tool cache
RawNeverToCache(inContainer) == FALSE

\* main.ts:120: the raw binary goes to the tool cache outside a container
RawToCache(inContainer) == ~inContainer

\* main.ts:127
RawReturn(dest, name) == join(dest, <<name>>)

\* the subdirectory is ignored
ReleaseFolderIsRoot(extracted, subdir) == extracted

\* main.ts:141
ReleaseFolderOf(extracted, subdir) == IF TruthyPath(subdir) THEN join(extracted, subdir) ELSE extracted

\* the extracted folder is cached in a container too
NeverCopyToDest(inContainer) == FALSE

\* main.ts:142: in a container the extracted folder is copied, else cached
CopyToDest(inContainer) == inContainer

\* main.ts:147
ArchiveReturn(dest, name) == join(dest, <<name>>)

\* the lookup is made under another version than the one registered
FindOtherVersion(c, name, version, arch) ==
  LET other == CHOOSE v \in Versions : v # version
  IN IF c[other].state = "complete" THEN CachePath(name, other, arch) ELSE NoPath

\* tc.find as called at main.ts:166: the slot's path when the slot is complete, else ''
find(c, name, version, arch) ==
  IF c[version].state = "complete" THEN CachePath(name, version, arch) ELSE NoPath

\* the result of the lookup is ignored
NeverCached(found) == FALSE

\* main.ts:168
IsCached(found) == TruthyPath(found)

(***************************************************************************)
(* Initial state                                                           *)
(***************************************************************************)
\* a slot left by earlier runs: never written, written without its completion
\* marker, or complete
OldSlots == {EmptySlot,
             [state |-> "partial", content |-> "previous"],
             [state |-> "complete", content |-> "previous"]}

NoFiles == [q \in {} |-> Absent]

NoLocals == [inContainer |-> FALSE, url |-> NoPath, dest |-> NoPath, tmpDir |-> NoPath,
             archivePath |-> NoPath, archiveDest |-> NoPath, extracted |-> NoPath,
             releaseFolder |-> NoPath, ret |-> NoPath]

NoConfig == mkReleaseConfig([name |-> "", version |-> "", url |-> NoPath, subdir |-> NoPath,
                             os |-> "", arch |-> "", ext |-> "", noExtract |-> TRUE,
                             githubToken |-> Null], "")

Init ==
  /\ inputs \in InputSpace
  /\ cache \in [Versions -> OldSlots]
  /\ cache0 = cache
  /\ fsys \in {NoFiles, Put(NoFiles, FixedDest, "dir")}
  /\ pc = [p \in Procs |-> "start"]
  /\ config = [p \in Procs |-> NoConfig]
  /\ loc = [p \in Procs |-> NoLocals]
  /\ existingDir = [p \in Procs |-> NotLookedUp]
  /\ dir = [p \in Procs |-> NoPath]
  /\ searchPath = [p \in Procs |-> <<>>]
  /\ failure = [p \in Procs |-> NoError]
  /\ calls = [p \in Procs |-> <<>>]
  /\ before = [p \in Procs |-> {}]

(***************************************************************************)
(* Steps                                                                   *)
(***************************************************************************)
Finished(p) == pc[p] \in {"done", "failed"}

\* the library call op(arg) was made by p and returned (ok) or threw
Called(p, op, arg, ok) ==
  calls' = [calls EXCEPT ![p] = Append(@, [op |-> op, arg |-> arg, ok |-> ok])]

Goto(p, label) == pc' = [pc EXCEPT ![p] = label]

\* the catch block swallows the error
ThrowUnreported(p, step) ==
  /\ pc' = [pc EXCEPT ![p] = "failed"]
  /\ UNCHANGED failure

\* the catch block reports a generic error in place of the one thrown
ThrowGeneric(p, step) ==
  /\ pc' = [pc EXCEPT ![p] = "failed"]
  /\ failure' = [failure EXCEPT ![p] = "error"]

\* main.ts:185-187: an error thrown anywhere under run() reaches core.setFailed
Throw(p, step) ==
  /\ pc' = [pc EXCEPT ![p] = "failed"]
  /\ failure' = [failure EXCEPT ![p] = step]

\* main.ts:180-181 and every return of download(): the value reaches run()
Return(p, value) ==
  /\ pc' = [pc EXCEPT ![p] = "addPath"]
  /\ dir' = [dir EXCEPT ![p] = value]

\* main.ts:179: run() starts and builds the configuration
MkConfig(p) ==
  /\ pc[p] = "start"
  /\ before' = [before EXCEPT ![p] = {q \in Procs : Finished(q)}]
  /\ config' = [config EXCEPT ![p] = mkReleaseConfig(inputs, OsArch)]
  /\ Goto(p, "find")
  /\ UNCHANGED <<existingDir, inputs, cache, fsys, loc, dir, searchPath, failure, calls, cache0>>

\* main.ts:56: getInputs throws (a required input is missing)
MkConfigThrows(p) ==
  /\ pc[p] = "start"
  /\ before' = [before EXCEPT ![p] = {q \in Procs : Finished(q)}]
  /\ Throw(p, "config")
  /\ UNCHANGED <<existingDir, inputs, cache, fsys, config, loc, dir, searchPath, calls, cache0>>

\* main.ts:163-175: findOrDownload looks the identity up and returns a hit
FindOrDownload(p) ==
  /\ pc[p] = "find"
  /\ LET tool == config[p].tool
         found == find(cache, tool.name, tool.version, tool.arch)
     IN /\ Called(p, "find", CachePath(tool.name, tool.version, tool.arch), TRUE)
        /\ existingDir' = [existingDir EXCEPT ![p] = found]
        /\ IF IsCached(found)
           THEN Return(p, found)
           ELSE Goto(p, "download") /\ UNCHANGED dir
  /\ UNCHANGED <<inputs, cache, fsys, config, loc, searchPath, failure, cache0, before>>

\* main.ts:166: tc.find throws
FindThrows(p) ==
  /\ pc[p] = "find"
  /\ LET tool == config[p].tool
     IN Called(p, "find", CachePath(tool.name, tool.version, tool.arch), FALSE)
  /\ Throw(p, "find")
  /\ UNCHANGED <<existingDir, inputs, cache, fsys, config, loc, dir, searchPath, cache0, before>>

\* main.ts:80-92 with a token: the private-asset lookup gives the url
ResolveAsset(p) ==
  /\ pc[p] = "download"
  /\ UsesAssetLookup(config[p].githubToken)
  /\ Called(p, "findReleaseAsset", config[p].archive.url, TRUE)
  /\ loc' = [loc EXCEPT ![p].inContainer = InContainerOf(inputs.containerId),
                        ![p].url = AssetUrl]
  /\ Goto(p, "dest")
  /\ UNCHANGED <<existingDir, inputs, cache, fsys, config, dir, searchPath, failure, cache0, before>>

\* main.ts:90: github.findReleaseAsset throws
ResolveAssetThrows(p) ==
  /\ pc[p] = "download"
  /\ UsesAssetLookup(config[p].githubToken)
  /\ Called(p, "findReleaseAsset", config[p].archive.url, FALSE)
  /\ loc' = [loc EXCEPT ![p].inContainer = InContainerOf(inputs.containerId)]
  /\ Throw(p, "resolve")
  /\ UNCHANGED <<existingDir, inputs, cache, fsys, config, dir, searchPath, cache0, before>>

\* main.ts:80-92 without a token: the url is the configured one
NoAssetLookup(p) ==
  /\ pc[p] = "download"
  /\ ~UsesAssetLookup(config[p].githubToken)
  /\ loc' = [loc EXCEPT ![p].inContainer = InContainerOf(inputs.containerId),
                        ![p].url = config[p].archive.url]
  /\ Goto(p, "dest")
  /\ UNCHANGED <<existingDir, inputs, cache, fsys, config, dir, searchPath, failure, calls, cache0,
                 before>>

\* main.ts:115: the branch download() takes once dest is known
BranchOf(extract) == IF RawBranch(extract) THEN "downloadRaw" ELSE "downloadArchive"

\* main.ts:98-112: the destination is chosen; in a container fs.existsSync tells
\* whether it has to be created
SetupDest(p) ==
  /\ pc[p] = "dest"
  /\ LET inC == loc[p].inContainer
         tmpDir == IF inC THEN NoPath ELSE TmpDirOf(p)
     IN /\ loc' = [loc EXCEPT ![p].tmpDir = tmpDir,
                              ![p].dest = DestOf(inC, tmpDir, config[p].tool.name)]
        /\ IF inC /\ ~Exists(fsys, FixedDest)
           THEN Goto(p, "mkdir")
           ELSE Goto(p, BranchOf(config[p].archive.extract))
  /\ UNCHANGED <<existingDir, inputs, cache, fsys, config, dir, searchPath, failure, calls,
                 cache0, before>>

\* fs.mkdirSync(path, {recursive: true}): the directory exists afterwards; one that
\* exists already is left as it is
MadeDir(fs, path) == IF Exists(fs, path) THEN fs ELSE Put(fs, path, "dir")

\* main.ts:103: the fixed directory is created
MkdirDest(p) ==
  /\ pc[p] = "mkdir"
  /\ fsys' = MadeDir(fsys, loc[p].dest)
  /\ Called(p, "mkdirSync", loc[p].dest, TRUE)
  /\ Goto(p, BranchOf(config[p].archive.extract))
  /\ UNCHANGED <<existingDir, inputs, cache, config, loc, dir, searchPath, failure, cache0,
                 before>>

\* main.ts:103: fs.mkdirSync throws
MkdirDestThrows(p) ==
  /\ pc[p] = "mkdir"
  /\ Called(p, "mkdirSync", loc[p].dest, FALSE)
  /\ Throw(p, "mkdir")
  /\ UNCHANGED <<existingDir, inputs, cache, fsys, config, loc, dir, searchPath, cache0, before>>

\* tc.downloadTool(url, dest) refuses a dest that exists
CanDownloadTo(fs, dest) == ~Exists(fs, dest)

\* tc.downloadTool(url, dest): dest's directory is created, then the file is written;
\* nothing is written when dest exists
Downloaded(fs, dest, what) ==
  LET made == IF Exists(fs, Parent(dest)) THEN fs ELSE Put(fs, Parent(dest), "dir")
  IN IF CanDownloadTo(fs, dest) THEN Put(made, dest, what) ELSE fs

\* what a failed tc.downloadTool may leave: nothing, or dest's directory
DownloadLeftovers(fs, dest) ==
  IF CanDownloadTo(fs, dest)
  THEN {fs, IF Exists(fs, Parent(dest)) THEN fs ELSE Put(fs, Parent(dest), "dir")}
  ELSE {fs}

\* main.ts:117: the raw binary is downloaded to dest
DownloadRaw(p) ==
  /\ pc[p] = "downloadRaw"
  /\ CanDownloadTo(fsys, loc[p].dest)
  /\ fsys' = Downloaded(fsys, loc[p].dest, "binary")
  /\ Called(p, "downloadTool", loc[p].dest, TRUE)
  /\ Goto(p, "chmod")
  /\ UNCHANGED <<existingDir, inputs, cache, config, loc, dir, searchPath, failure, cache0, before>>

\* main.ts:117: tc.downloadTool throws
DownloadRawThrows(p) ==
  /\ pc[p] = "downloadRaw"
  /\ fsys' \in DownloadLeftovers(fsys, loc[p].dest)
  /\ Called(p, "downloadTool", loc[p].dest, FALSE)
  /\ Throw(p, "download")
  /\ UNCHANGED <<existingDir, inputs, cache, config, loc, dir, searchPath, cache0, before>>

\* main.ts:119-128: the binary is made executable; in a container download() returns
Chmod(p) ==
  /\ pc[p] = "chmod"
  /\ Called(p, "chmodSync", loc[p].dest, TRUE)
  /\ IF RawToCache(loc[p].inContainer)
     THEN Goto(p, "cacheRaw") /\ UNCHANGED dir
     ELSE Return(p, RawReturn(loc[p].dest, config[p].tool.name))
  /\ UNCHANGED <<existingDir, inputs, cache, fsys, config, loc, searchPath, failure, cache0, before>>

\* main.ts:119: fs.chmodSync throws
ChmodThrows(p) ==
  /\ pc[p] = "chmod"
  /\ Called(p, "chmodSync", loc[p].dest, FALSE)
  /\ Throw(p, "chmod")
  /\ UNCHANGED <<existingDir, inputs, cache, fsys, config, loc, dir, searchPath, cache0, before>>

\* tc.cacheDir(sourceDir, ...) refuses a sourceDir that is not a directory
CanCacheDir(fs, sourceDir) == IsDirectory(fs, sourceDir)

\* tc.cacheDir(sourceDir, name, version, arch): the slot holds a copy of sourceDir and
\* is marked complete
Cached(c, fs, sourceDir, version) ==
  IF CanCacheDir(fs, sourceDir)
  THEN [c EXCEPT ![version] = [state |-> "complete", content |-> ContentOf(fs, sourceDir)]]
  ELSE c

\* a failed registration leaves the slot marked complete
CacheLeftoversMarked(c, fs, sourceDir, version) ==
  {[c EXCEPT ![version] = [state |-> "complete", content |-> "partial"]]}

\* what a failed tc.cacheDir may leave: the slot untouched, or recreated and not
\* marked complete; a refused sourceDir leaves it untouched
CacheLeftovers(c, fs, sourceDir, version) ==
  IF CanCacheDir(fs, sourceDir)
  THEN {c, [c EXCEPT ![version] = [state |-> "partial", content |-> ContentOf(fs, sourceDir)]]}
  ELSE {c}

\* the completion marker is written before the copy is made
RegisteringMarkedFirst(c, fs, sourceDir, version) ==
  [c EXCEPT ![version] = [state |-> "complete", content |-> ContentOf(fs, sourceDir)]]

\* tc.cacheDir while it runs: the slot is recreated without its completion marker and
\* sourceDir is being copied into it
Registering(c, fs, sourceDir, version) ==
  [c EXCEPT ![version] = [state |-> "partial", content |-> ContentOf(fs, sourceDir)]]

\* main.ts:150: tc.cacheDir has been called on the release folder and is awaited;
\* other processes run while it copies
CacheDirBegin(p) ==
  /\ pc[p] = "cacheArchive"
  /\ CanCacheDir(fsys, loc[p].releaseFolder)
  /\ cache' = Registering(cache, fsys, loc[p].releaseFolder, config[p].tool.version)
  /\ Goto(p, "cacheArchiveCopy")
  /\ UNCHANGED <<existingDir, inputs, fsys, config, loc, dir, searchPath, failure, calls,
                 cache0, before>>

\* main.ts:122: tc.cacheDir is called on dest, the file tc.downloadTool wrote, and
\* throws; main.ts:123-124 are not reached
CacheRawThrows(p) ==
  /\ pc[p] = "cacheRaw"
  /\ ~CanCacheDir(fsys, loc[p].dest)
  /\ cache' \in CacheLeftovers(cache, fsys, loc[p].dest, config[p].tool.version)
  /\ Called(p, "cacheDir", loc[p].dest, FALSE)
  /\ Throw(p, "cache")
  /\ UNCHANGED <<existingDir, inputs, fsys, config, loc, dir, searchPath, cache0, before>>

\* main.ts:132-140: the archive is extracted once it is downloaded
StepAfterArchiveDownload == "extract"

\* main.ts:132-139: the archive is downloaded to a temporary file
DownloadArchive(p) ==
  /\ pc[p] = "downloadArchive"
  /\ CanDownloadTo(fsys, TempFileOf(p))
  /\ fsys' = Downloaded(fsys, TempFileOf(p), "archive")
  /\ loc' = [loc EXCEPT ![p].archivePath = TempFileOf(p),
                        ![p].archiveDest = ArchiveDestOf(p)]
  /\ Called(p, "downloadTool", TempFileOf(p), TRUE)
  /\ Goto(p, StepAfterArchiveDownload)
  /\ UNCHANGED <<existingDir, inputs, cache, config, dir, searchPath, failure, cache0, before>>

\* main.ts:132: tc.downloadTool throws
DownloadArchiveThrows(p) ==
  /\ pc[p] = "downloadArchive"
  /\ fsys' \in DownloadLeftovers(fsys, TempFileOf(p))
  /\ Called(p, "downloadTool", TempFileOf(p), FALSE)
  /\ Throw(p, "download")
  /\ UNCHANGED <<existingDir, inputs, cache, config, loc, dir, searchPath, cache0, before>>

\* extract(archivePath, toDir): toDir holds the archive's directories
Extracted(fs, toDir) ==
  [q \in DOMAIN fs \cup {join(toDir, d) : d \in DOMAIN ArchiveTree} |->
     IF \E d \in DOMAIN ArchiveTree : q = join(toDir, d)
     THEN ArchiveTree[SubSeq(q, Len(toDir) + 1, Len(q))]
     ELSE fs[q]]

\* what a failed extract may leave: nothing, or a partly filled toDir
ExtractLeftovers(fs, toDir) == {fs, Put(fs, toDir, "partial")}

\* the temporaries are removed before the release folder is placed
CleanupBeforePlacement(inContainer) == "rmArchiveDest"

\* main.ts:142-155: the release folder is placed once the archive is extracted
StepAfterExtract(inContainer) == IF CopyToDest(inContainer) THEN "copy" ELSE "cacheArchive"

\* main.ts:140-142: the archive is extracted and the release folder resolved
Extract(p) ==
  /\ pc[p] = "extract"
  /\ fsys' = Extracted(fsys, loc[p].archiveDest)
  /\ loc' = [loc EXCEPT ![p].extracted = loc[p].archiveDest,
                        ![p].releaseFolder =
                           ReleaseFolderOf(loc[p].archiveDest, config[p].archive.subdir)]
  /\ Called(p, config[p].archive.extract, loc[p].archivePath, TRUE)
  /\ Goto(p, StepAfterExtract(loc[p].inContainer))
  /\ UNCHANGED <<existingDir, inputs, cache, config, dir, searchPath, failure, cache0, before>>

\* main.ts:140: extract throws
ExtractThrows(p) ==
  /\ pc[p] = "extract"
  /\ fsys' \in ExtractLeftovers(fsys, loc[p].archiveDest)
  /\ Called(p, config[p].archive.extract, loc[p].archivePath, FALSE)
  /\ Throw(p, "extract")
  /\ UNCHANGED <<existingDir, inputs, cache, config, loc, dir, searchPath, cache0, before>>

\* fs.cpSync(src, dest) without {recursive: true} copies a file only: it throws on
\* a src that is a directory or missing, and on a file src with a directory dest
CanCpSync(fs, src, dest) == IsFile(fs, src) /\ ~IsDirectory(fs, dest)

\* main.ts:144: fs.cpSync(releaseFolder, dest) is called on the release folder, a
\* directory of the extraction, and throws; main.ts:145-147 are reached only if the
\* copy is made
Copy(p) ==
  /\ pc[p] = "copy"
  /\ LET ok == CanCpSync(fsys, loc[p].releaseFolder, loc[p].dest)
     IN /\ Called(p, "cpSync", loc[p].releaseFolder, ok)
        /\ IF ok
           THEN /\ fsys' = Put(fsys, loc[p].dest, ContentOf(fsys, loc[p].releaseFolder))
                /\ Goto(p, "rmArchiveDest")
                /\ UNCHANGED failure
           ELSE /\ Throw(p, "copy")
                /\ UNCHANGED fsys
  /\ UNCHANGED <<existingDir, inputs, cache, config, loc, dir, searchPath, cache0, before>>

\* main.ts:150-155: the release folder is registered in the tool cache
CacheArchive(p) ==
  /\ pc[p] = "cacheArchiveCopy"
  /\ CanCacheDir(fsys, loc[p].releaseFolder)
  /\ LET tool == config[p].tool
     IN /\ cache' = Cached(cache, fsys, loc[p].releaseFolder, tool.version)
        /\ loc' = [loc EXCEPT ![p].ret = CachePath(tool.name, tool.version, tool.arch)]
  /\ Called(p, "cacheDir", loc[p].releaseFolder, TRUE)
  /\ Goto(p, "rmArchiveDest")
  /\ UNCHANGED <<existingDir, inputs, fsys, config, dir, searchPath, failure, cache0, before>>

\* main.ts:150: tc.cacheDir throws
CacheArchiveThrows(p) ==
  /\ pc[p] \in {"cacheArchive", "cacheArchiveCopy"}
  /\ cache' \in CacheLeftovers(cache, fsys, loc[p].releaseFolder, config[p].tool.version)
  /\ Called(p, "cacheDir", loc[p].releaseFolder, FALSE)
  /\ Throw(p, "cache")
  /\ UNCHANGED <<existingDir, inputs, fsys, config, loc, dir, searchPath, cache0, before>>

\* main.ts:145 and 156: the extraction directory is removed
RmArchiveDest(p) ==
  /\ pc[p] = "rmArchiveDest"
  /\ fsys' = Remove(fsys, loc[p].archiveDest)
  /\ Called(p, "rmSync", loc[p].archiveDest, TRUE)
  /\ Goto(p, "rmArchivePath")
  /\ UNCHANGED <<existingDir, inputs, cache, config, loc, dir, searchPath, failure, cache0, before>>

\* main.ts:145 and 156: fs.rmSync throws
RmArchiveDestThrows(p) ==
  /\ pc[p] = "rmArchiveDest"
  /\ Called(p, "rmSync", loc[p].archiveDest, FALSE)
  /\ Throw(p, "cleanup")
  /\ UNCHANGED <<existingDir, inputs, cache, fsys, config, loc, dir, searchPath, cache0, before>>

\* main.ts:146-147 and 157-158: the archive file is removed and download() returns
RmArchivePath(p) ==
  /\ pc[p] = "rmArchivePath"
  /\ fsys' = Remove(fsys, loc[p].archivePath)
  /\ Called(p, "rmSync", loc[p].archivePath, TRUE)
  /\ Return(p, IF CopyToDest(loc[p].inContainer)
               THEN ArchiveReturn(loc[p].dest, config[p].tool.name)
               ELSE loc[p].ret)
  /\ UNCHANGED <<existingDir, inputs, cache, config, loc, searchPath, failure, cache0, before>>

\* main.ts:146 and 157: fs.rmSync throws
RmArchivePathThrows(p) ==
  /\ pc[p] = "rmArchivePath"
  /\ Called(p, "rmSync", loc[p].archivePath, FALSE)
  /\ Throw(p, "cleanup")
  /\ UNCHANGED <<existingDir, inputs, cache, fsys, config, loc, dir, searchPath, cache0, before>>

\* main.ts:181-184: the directory is added to the executable search path
AddPath(p) ==
  /\ pc[p] = "addPath"
  /\ searchPath' = [searchPath EXCEPT ![p] = Append(@, dir[p])]
  /\ Goto(p, "done")
  /\ UNCHANGED <<existingDir, inputs, cache, fsys, config, loc, dir, failure, calls, cache0, before>>

Next ==
  \E p \in Procs :
    \/ MkConfig(p) \/ MkConfigThrows(p)
    \/ FindOrDownload(p) \/ FindThrows(p)
    \/ ResolveAsset(p) \/ ResolveAssetThrows(p) \/ NoAssetLookup(p)
    \/ SetupDest(p) \/ MkdirDest(p) \/ MkdirDestThrows(p)
    \/ DownloadRaw(p) \/ DownloadRawThrows(p)
    \/ Chmod(p) \/ ChmodThrows(p)
    \/ CacheRawThrows(p)
    \/ CacheDirBegin(p)
    \/ DownloadArchive(p) \/ DownloadArchiveThrows(p)
    \/ Extract(p) \/ ExtractThrows(p)
    \/ Copy(p)
    \/ CacheArchive(p) \/ CacheArchiveThrows(p)
    \/ RmArchiveDest(p) \/ RmArchiveDestThrows(p)
    \/ RmArchivePath(p) \/ RmArchivePathThrows(p)
    \/ AddPath(p)

Spec == Init /\ [][Next]_vars

(***************************************************************************)
(* Vocabulary of the properties                                            *)
(***************************************************************************)
Extractors == {"extractTar", "extractZip", "extract7z", "extractXar"}
RawSteps == {"downloadRaw", "chmod", "cacheRaw"}
ArchiveSteps == {"downloadArchive", "extract", "copy", "cacheArchive", "cacheArchiveCopy",
                 "rmArchiveDest", "rmArchivePath"}
DownloadSteps == {"download", "dest", "mkdir"} \cup RawSteps \cup ArchiveSteps

Made(p, op) == \E i \in DOMAIN calls[p] : calls[p][i].op = op
MadeOk(p, op) == \E i \in DOMAIN calls[p] : calls[p][i].op = op /\ calls[p][i].ok

\* the error step a throwing library call stands for
StepOfOp(op) ==
  CASE op = "find" -> "find"
    [] op = "findReleaseAsset" -> "resolve"
    [] op = "mkdirSync" -> "mkdir"
    [] op = "downloadTool" -> "download"
    [] op = "chmodSync" -> "chmod"
    [] op = "cpSync" -> "copy"
    [] op = "cacheDir" -> "cache"
    [] op = "rmSync" -> "cleanup"
    [] OTHER -> "extract"

\* mkReleaseConfig returned to run()
Configured(p) == pc[p] # "start" /\ failure[p] # "config"

\* download() was invoked by p and returned a path
Acquired(p) == existingDir[p] = NoPath /\ pc[p] \in {"addPath", "done"}

\* the temporary resources of p's download() that exist
TempsOf(p) ==
  {q \in DOMAIN fsys : \/ IsPrefix(TmpDirOf(p), q)
                       \/ IsPrefix(ArchiveDestOf(p), q)
                       \/ IsPrefix(TempFileOf(p), q)}

CachedInstall == ~InContainerOf(inputs.containerId)
FixedDirectoryInstall == InContainerOf(inputs.containerId)

\* the identity every run of this machine resolves
RunSlot == CachePath(ToolName, RunVersion, OsArch)
LookupNow == find(cache, ToolName, RunVersion, OsArch)
LookupAtStart == find(cache0, ToolName, RunVersion, OsArch)

\* no other process overlaps p's run
Alone(p) == \A q \in Procs \ {p} : pc[q] = "start" \/ q \in before[p]

\* the directory of the archive the subdir input names
ExpectedSubdir ==
  CASE inputs.subdir = <<"pkg", "bin">> -> <<"pkg", "bin">>
    [] inputs.subdir = <<"{name}", "{version}">> -> <<ToolName, RunVersion>>
    [] OTHER -> <<>>

(***************************************************************************)
(* Properties                                                              *)
(***************************************************************************)
\* C1: findOrDownload looks the identity up before anything else; on a hit it
\* returns the path tc.find gave and makes no other call (no asset lookup, download,
\* extraction or cache write); download() runs only after a miss.
C1_HitReturnsWithoutAcquisition ==
  \A p \in Procs :
    /\ calls[p] # <<>> => calls[p][1].op = "find"
    /\ existingDir[p] \notin {NotLookedUp, NoPath} =>
         /\ existingDir[p] = RunSlot
         /\ dir[p] = existingDir[p]
         /\ Len(calls[p]) = 1
         /\ pc[p] \in {"addPath", "done"}
    /\ (Len(calls[p]) > 1 \/ pc[p] \in DownloadSteps) => existingDir[p] = NoPath

C1_Witness ==
  \E p \in Procs : /\ pc[p] = "done"
                   /\ existingDir[p] = RunSlot
                   /\ searchPath[p] = <<RunSlot>>

\* C2: when the lookup misses at the start and two runs under CachedInstall succeed
\* one after the other, the first downloads, the second downloads nothing and
\* returns the same path.
C2_Idempotent ==
  \A p, q \in Procs :
    (/\ p # q /\ p \in before[q]
     /\ pc[p] = "done" /\ pc[q] = "done"
     /\ CachedInstall
     /\ LookupAtStart = NoPath)
    => /\ MadeOk(p, "downloadTool")
       /\ ~Made(q, "downloadTool")
       /\ dir[q] = dir[p]

C2_Witness ==
  \E p, q \in Procs :
    /\ p # q /\ p \in before[q]
    /\ pc[p] = "done" /\ pc[q] = "done"
    /\ CachedInstall
    /\ cache0 = [v \in Versions |-> EmptySlot]
    /\ dir[q] = RunSlot

\* C3: under FixedDirectoryInstall the tool cache is never written: no process
\* calls tc.cacheDir and the cache is as it was before the runs, whether they
\* succeed or fail.
C3_FixedDirectoryNeverCaches ==
  FixedDirectoryInstall =>
    /\ cache = cache0
    /\ \A p \in Procs : ~Made(p, "cacheDir")

C3_Witness ==
  /\ FixedDirectoryInstall
  /\ LookupAtStart = NoPath /\ LookupNow = NoPath
  /\ \A p \in Procs : Finished(p) /\ Made(p, "downloadTool")
  /\ \E p \in Procs : Made(p, "cpSync")
  /\ \E p \in Procs : failure[p] # NoError

\* C4: a download() that returns under CachedInstall has registered the identity
\* with tc.cacheDir and returns the slot's path; a lookup made after it, with no
\* other run in between, finds that same path.
C4_CachedInstallRegisters ==
  \A p \in Procs :
    (Acquired(p) /\ CachedInstall) =>
      /\ MadeOk(p, "cacheDir")
      /\ dir[p] = RunSlot
      /\ Alone(p) => LookupNow = dir[p]

C4_Witness ==
  \E p \in Procs : /\ Acquired(p) /\ CachedInstall /\ pc[p] = "done"
                   /\ Alone(p) /\ LookupNow = dir[p]
                   /\ \E x \in Extractors : MadeOk(p, x)

\* C5 (as claimed): when extraction fails, the temporary download file and the
\* temporary extraction directory of that run no longer exist.
C5_CleanupOnFailure ==
  \A p \in Procs : failure[p] = "extract" => TempsOf(p) = {}

\* C6: when download() returns a path, every temporary resource it created (the
\* temporary root, the archive file, the extraction directory and all below them)
\* is gone.
C6_CleanupOnSuccess ==
  \A p \in Procs : Acquired(p) => TempsOf(p) = {}

C6_Witness ==
  \E p, q \in Procs :
    /\ Acquired(p) /\ Acquired(q) /\ p # q
    /\ \E x \in Extractors : MadeOk(p, x)
    /\ \E i \in DOMAIN calls[p] : calls[p][i] = [op |-> "rmSync", arg |-> TempFileOf(p),
                                               ok |-> TRUE]

\* C7: a lookup hits only a slot that is as earlier runs left it complete, or that
\* a run registered after its download and, when it extracts, its extraction had
\* succeeded; what the slot holds is then the downloaded content, never nothing
\* and never a partly extracted folder.
C7_NoPartialCacheHit ==
  \A v \in Versions :
    find(cache, ToolName, v, OsArch) # NoPath =>
      \/ cache[v] = cache0[v]
      \/ /\ cache[v].content \notin {Absent, "partial", "dir"}
         /\ \E p \in Procs : \E i \in DOMAIN calls[p] :
              /\ config[p].tool.version = v
              /\ calls[p][i].op = "cacheDir" /\ calls[p][i].ok
              /\ \E j \in 1..(i - 1) : calls[p][j].op = "downloadTool" /\ calls[p][j].ok
              /\ ~RawBranch(config[p].archive.extract) =>
                   \E j \in 1..(i - 1) : calls[p][j].op \in Extractors /\ calls[p][j].ok

C7_Witness ==
  /\ cache0[RunVersion].state = Absent
  /\ cache[RunVersion].state = "partial"
  /\ LookupNow = NoPath
  /\ \E p, q \in Procs : /\ failure[p] = "cache" /\ MadeOk(p, "downloadTool")
                         /\ failure[q] \in {"extract", "chmod"}

\* C8: run() hands the directory to core.addPath once, and only when
\* findOrDownload returned it; when the configuration, the lookup or any step of
\* the acquisition throws, run() reports that error and adds no path.
C8_RunOutcome ==
  \A p \in Procs :
    /\ pc[p] = "done" =>
         /\ searchPath[p] = <<dir[p]>>
         /\ failure[p] = NoError
         /\ \A i \in DOMAIN calls[p] : calls[p][i].ok
    /\ pc[p] = "failed" =>
         /\ searchPath[p] = <<>>
         /\ IF calls[p] = <<>>
            THEN failure[p] = "config"
            ELSE LET last == calls[p][Len(calls[p])]
                 IN ~last.ok /\ failure[p] = StepOfOp(last.op)
    /\ pc[p] \notin {"done", "failed"} =>
         /\ searchPath[p] = <<>>
         /\ failure[p] = NoError

C8_Witness ==
  \E p, q \in Procs : /\ pc[p] = "done" /\ searchPath[p] = <<dir[p]>>
                      /\ pc[q] = "failed" /\ failure[q] = "download"

\* C9: for tar.gz, zip, 7z and xar getExtract gives an extraction operation and
\* download() takes the extraction branch; when extract is null (no-extract) it
\* takes the raw-binary branch and calls no extractor.
C9_ExtractionTotality ==
  /\ \A ext \in PkgExtensions : getExtract(ext) \in Extractors
  /\ \A p \in Procs :
       Configured(p) =>
         LET extract == config[p].archive.extract
         IN /\ (~inputs.noExtract /\ inputs.ext \in PkgExtensions) =>
                 /\ extract \in Extractors
                 /\ pc[p] \notin RawSteps
                 /\ ~Made(p, "chmodSync")
            /\ inputs.noExtract => extract = Null
            /\ extract = Null =>
                 /\ pc[p] \notin ArchiveSteps
                 /\ \A x \in Extractors : ~Made(p, x)

C9_Witness ==
  \E p, q \in Procs :
    /\ inputs.ext = "xar" /\ ~inputs.noExtract
    /\ MadeOk(p, "extractXar")
    /\ pc[q] = "downloadArchive"

\* C10: in the extraction branch the folder handed to tc.cacheDir or fs.cpSync is
\* <extraction root>/<subdir> when a subdir is configured and the extraction root
\* otherwise, and what is installed is that folder's content.
C10_SubdirectoryResolution ==
  \A p \in Procs :
    (Configured(p) /\ ~RawBranch(config[p].archive.extract)) =>
      LET placed == join(ArchiveDestOf(p), ExpectedSubdir)
      IN /\ pc[p] \in {"copy", "cacheArchive", "cacheArchiveCopy", "rmArchiveDest",
                       "rmArchivePath"} =>
              loc[p].releaseFolder = placed
         /\ \A i \in DOMAIN calls[p] :
              calls[p][i].op \in {"cacheDir", "cpSync"} => calls[p][i].arg = placed
         /\ MadeOk(p, "cpSync") => ContentOf(fsys, FixedDest) = ArchiveTree[ExpectedSubdir]
         /\ MadeOk(p, "cacheDir") => cache[RunVersion].content = ArchiveTree[ExpectedSubdir]

C10_Witness ==
  \E p \in Procs :
    /\ pc[p] = "done" /\ inputs.subdir = <<"pkg", "bin">>
    /\ MadeOk(p, "cacheDir")
    /\ cache[RunVersion] = [state |-> "complete", content |-> "archive:/pkg/bin"]

\* the position of a library call in the order of an acquisition
Rank(op) ==
  CASE op = "find" -> 0
    [] op = "findReleaseAsset" -> 1
    [] op = "mkdirSync" -> 2
    [] op = "downloadTool" -> 3
    [] op = "chmodSync" -> 4
    [] op = "cpSync" -> 6
    [] op = "cacheDir" -> 7
    [] op = "rmSync" -> 8
    [] OTHER -> 5

Ops(p) == [i \in DOMAIN calls[p] |-> calls[p][i].op]

\* C11: the calls of one acquisition are made in the order asset lookup, download,
\* extraction, placement (copy or cache registration), cleanup; a call is made only
\* after the one before it returned, and nothing temporary is removed before the
\* placement returned.
C11_StepOrder ==
  \A p \in Procs : \A i \in DOMAIN calls[p] :
    LET c == calls[p][i]
    IN /\ i < Len(calls[p]) => c.ok
       /\ i > 1 =>
            \/ Rank(calls[p][i - 1].op) < Rank(c.op)
            \/ /\ calls[p][i - 1].op = "rmSync" /\ c.op = "rmSync"
               /\ calls[p][i - 1].arg = loc[p].archiveDest /\ c.arg = loc[p].archivePath
       /\ c.op \in Extractors => calls[p][i - 1].op = "downloadTool"
       /\ c.op \in {"cpSync", "cacheDir"} =>
            /\ \E j \in 1..(i - 1) : calls[p][j].op = "downloadTool"
            /\ ~RawBranch(config[p].archive.extract) => calls[p][i - 1].op \in Extractors
       /\ c.op = "rmSync" =>
            \E j \in 1..(i - 1) : calls[p][j].op \in {"cpSync", "cacheDir"} /\ calls[p][j].ok

C11_Witness ==
  \E p, q \in Procs :
    /\ Ops(p) = <<"find", "findReleaseAsset", "downloadTool", "extractZip", "cacheDir",
                  "rmSync", "rmSync">>
    /\ pc[p] = "done"
    /\ pc[q] = "cacheArchiveCopy"

\* C12: when the asset lookup, a download, the extraction or the copy throws, that
\* call is the last one of the acquisition (no cache registration follows), no path
\* is added, and the error run() reports is the one of the step that threw.
C12_ErrorPropagation ==
  \A p \in Procs :
    /\ failure[p] \in {"resolve", "download", "extract", "copy"} =>
         /\ pc[p] = "failed"
         /\ searchPath[p] = <<>>
         /\ ~Made(p, "cacheDir")
         /\ pc[p] \notin {"cacheArchiveCopy"}
    /\ \A i \in DOMAIN calls[p] :
         (~calls[p][i].ok /\ StepOfOp(calls[p][i].op) \in {"resolve", "download", "extract",
                                                          "copy", "cache"}) =>
           /\ i = Len(calls[p])
           /\ failure[p] = StepOfOp(calls[p][i].op)

C12_Witness ==
  \E p, q \in Procs :
    /\ failure[p] = "extract" /\ calls[p][Len(calls[p])].op = "extractTar"
    /\ failure[q] = "resolve"

\* C13: github.findReleaseAsset is called exactly when a token is given, as the
\* first call of download(); when it throws, the acquisition has chosen no
\* destination, created no directory or file, and the cache is untouched.
C13_AssetLookupFirst ==
  \A p \in Procs :
    /\ Made(p, "findReleaseAsset") => inputs.githubToken = "token"
    /\ (inputs.githubToken = "token" /\ (Len(calls[p]) > 1 \/ pc[p] = "dest")) =>
         calls[p][2].op = "findReleaseAsset"
    /\ failure[p] = "resolve" =>
         /\ Len(calls[p]) = 2
         /\ loc[p].dest = NoPath /\ loc[p].tmpDir = NoPath /\ loc[p].archivePath = NoPath
         /\ TempsOf(p) = {}
         /\ (\A q \in Procs \ {p} : pc[q] = "start") =>
              cache = cache0 /\ DOMAIN fsys \subseteq {FixedDest}

C13_Witness ==
  \E p, q \in Procs :
    /\ failure[p] = "resolve" /\ pc[q] = "start"
    /\ FixedDirectoryInstall /\ ~Exists(fsys, FixedDest)

\* C14 (as claimed): in the raw-binary branch under CachedInstall what is handed to
\* tc.cacheDir is the temporary root, the directory that holds the downloaded file.
C14_RawRegistersTemporaryRoot ==
  \A p \in Procs : \A i \in DOMAIN calls[p] :
    (calls[p][i].op = "cacheDir" /\ RawBranch(config[p].archive.extract)) =>
      calls[p][i].arg = loc[p].tmpDir

\* C15 (as claimed): under FixedDirectoryInstall the raw-binary branch downloads
\* the file to the very path it returns, <destination root>/<tool name>.
C15_FixedRawReturnsDownloadedPath ==
  \A p \in Procs : \A i \in DOMAIN calls[p] :
    (/\ FixedDirectoryInstall /\ RawBranch(config[p].archive.extract)
     /\ calls[p][i].op = "downloadTool") =>
      calls[p][i].arg = RawReturn(FixedDest, config[p].tool.name)

\* C16 (as claimed): a failing removal of a temporary resource does not fail the run.
C16_CleanupFailureNotFatal ==
  \A p \in Procs :
    (\E i \in DOMAIN calls[p] : calls[p][i].op = "rmSync" /\ ~calls[p][i].ok) =>
      pc[p] # "failed"

\* C17 (as claimed): under FixedDirectoryInstall a run that returns a path has made
\* its own acquisition and does not return the path of a cache slot.
C17_FixedDirectoryBypassesCache ==
  FixedDirectoryInstall =>
    \A p \in Procs :
      pc[p] \in {"addPath", "done"} => dir[p] # RunSlot /\ Made(p, "downloadTool")

\* C18 (as claimed): with an extension outside the four supported ones and
\* extraction requested, nothing is downloaded and nothing is registered.
C18_UnsupportedExtensionFails ==
  \A p \in Procs :
    (Configured(p) /\ inputs.ext \notin PkgExtensions /\ ~inputs.noExtract) =>
      /\ ~Made(p, "downloadTool")
      /\ ~Made(p, "cacheDir")
      /\ pc[p] \notin RawSteps

\* what a complete slot may hold: what earlier runs left, the raw binary, or a
\* directory of the extracted archive
FullContents == {"previous", "binary"} \cup {ArchiveTree[d] : d \in DOMAIN ArchiveTree}

\* p's lookup returns a hit in this step
HitStep(p) == existingDir[p] = NotLookedUp /\ existingDir'[p] # NotLookedUp
              /\ existingDir'[p] # NoPath

\* C19: with two processes resolving the same identity under CachedInstall in any
\* interleaving, every path obtained for the identity is the one slot of the
\* identity, and a lookup hits only while the slot is complete, holds full content
\* and no process is in the middle of writing it.
C19_OneSlotNoPartialHit ==
  /\ [](CachedInstall =>
          \A p \in Procs : /\ TruthyPath(dir[p]) => dir[p] = RunSlot
                           /\ TruthyPath(loc[p].ret) => loc[p].ret = RunSlot)
  /\ [][CachedInstall =>
          \A p \in Procs :
            HitStep(p) =>
              /\ existingDir'[p] = RunSlot
              /\ cache[RunVersion].state = "complete"
              /\ cache[RunVersion].content \in FullContents
              /\ \A q \in Procs : pc[q] \notin {"cacheArchiveCopy"}]_vars

C19_Witness ==
  /\ CachedInstall
  /\ \A p \in Procs : pc[p] = "done" /\ MadeOk(p, "cacheDir") /\ before[p] = {}
  /\ LookupNow = RunSlot

====
